---------------------------- MODULE Spec2Model ----------------------------
(*
  Model of the two simulations of the repository:

    variant 1  src/PYTHON---Space-engine.py   class Spacecraft + game loop
    variant 2  src/unnamed/part_000           class SpaceEngine (gravity, fuel,
                                              camera, trails, planet editing)

  Number representation.  The programs compute with IEEE doubles.  Here every
  real quantity is a fixed-point integer and every product or quotient is
  rounded onto the grid: toward zero in the physics, to the nearest grid point
  (as a double operation rounds to the nearest double) in the zoom and in
  screen_to_world, and not at all inside world_to_screen, whose only rounding
  is the truncation of int():

    world coordinates, velocities   1/1000 of a world unit     (Milli)
    zoom                            1/1000                      (Milli)
    time dt                         milliseconds (clock.tick() returns ms,
                                    the program divides by 1000.0)
    angles of variant 2             microradians
    angles of variant 1             whole degrees (always a multiple of 3)
    fuel                            1/200 of a percent, so that both burn
                                    rates, 10*dt and 5*dt, are whole numbers
    sin, cos                        1/1000

  Rendering (draw_*, render, the starfield) only reads the state and is not
  modelled.
*)
EXTENDS Integers, Sequences, FiniteSets, TLC

VARIABLES
    pc,               \* position in SpaceEngine.run: "poll", "events", "done"
    running,          \* self.running
    paused,           \* self.paused
    cam_pos,          \* self.cam_pos
    zoom,             \* self.zoom
    planets,          \* self.planets
    ship,             \* self.ship
    trails,           \* self.trails
    applying_thrust,  \* self.applying_thrust
    mouse,            \* mx, my of handle_events
    dt,               \* argument of the latest update(dt) call
    op,               \* history: the handler that ran last
    prevOp,           \* history: the handler that ran before it
    frames,           \* history: unpaused update calls since the last reset
    events,           \* history: events handled since the last reset
    burned,           \* history: sum of 10*dt over unpaused thrust-forward frames since the last reset
    impulses,         \* history: thrust impulses of the latest update, with the fuel each was applied at
    sc,               \* variant 1: the Spacecraft object
    sc_prewrap,       \* variant 1 history: position before the wrap of the latest update()
    sc_frames         \* variant 1 history: iterations of the game loop so far

vars == <<pc, running, paused, cam_pos, zoom, planets, ship, trails,
          applying_thrust, mouse, dt, op, prevOp, frames, events,
          burned, impulses, sc, sc_prewrap, sc_frames>>

engineVars == <<pc, running, paused, cam_pos, zoom, planets, ship, trails,
                applying_thrust, mouse, dt, op, prevOp, frames,
                events, burned, impulses>>

scVars == <<sc, sc_prewrap, sc_frames>>

-----------------------------------------------------------------------------
(* Units and bounds *)

Milli == 10^3
FuelUnit == 2 * 100

\* Bounds of the model (not program constants).
MaxFrames == 2
MaxEvents == 1
MaxEdits == 3
MaxEditFrames == 1
MaxFramesLong == 503
MaxFramesV1 == 2

-----------------------------------------------------------------------------
(* Fixed-point arithmetic *)

Abs(a) == IF a < 0 THEN -a ELSE a

Sgn(a) == IF a < 0 THEN -1 ELSE IF a > 0 THEN 1 ELSE 0

Max(a, b) == IF a >= b THEN a ELSE b

Min(a, b) == IF a <= b THEN a ELSE b

\* a / c rounded toward zero (c > 0); also Python's int() of a/c.
TDiv(a, c) == Sgn(a) * (Abs(a) \div c)

\* a * b / c rounded toward zero (b >= 0, c > 0), without forming a * b.
MulDivT(a, b, c) ==
    Sgn(a) * (((Abs(a) \div c) * b) + (((Abs(a) % c) * b) \div c))

\* a / c rounded to the nearest integer (c > 0).
RDiv(a, c) == Sgn(a) * ((Abs(a) + c \div 2) \div c)

\* a * b / c rounded to the nearest integer (b >= 0, c > 0), without forming a * b.
MulDivR(a, b, c) ==
    Sgn(a) * (((Abs(a) \div c) * b) + (((Abs(a) % c) * b + c \div 2) \div c))

RECURSIVE IsqrtIn(_, _, _)
IsqrtIn(n, lo, hi) ==
    IF lo >= hi THEN lo
    ELSE LET mid == (lo + hi + 1) \div 2
         IN  IF mid * mid <= n THEN IsqrtIn(n, mid, hi)
                               ELSE IsqrtIn(n, lo, mid - 1)

\* math.sqrt on the grid: the largest r with r*r <= n  (0 <= n < 2^31).
Isqrt(n) == IsqrtIn(n, 0, 46340)

\* sqrt(a^2 + b^2) without overflow: large arguments lose low digits, as a
\* floating-point mantissa does.
RECURSIVE Hypot(_, _)
Hypot(a, b) ==
    IF Abs(a) <= 30000 /\ Abs(b) <= 30000
    THEN Isqrt(a * a + b * b)
    ELSE 10 * Hypot(TDiv(a, 10), TDiv(b, 10))

\* math.sin / math.cos, argument in milliradians reduced to [0, 2*pi),
\* result in 1/1000 (Bhaskara's rational approximation of the library call).
PiMilli == 3142

SinHalfTurn(x) ==
    LET p == x * (PiMilli - x)
    IN  (16 * p) \div ((5 * PiMilli * PiMilli - 4 * p) \div 1000)

SinMilli(x) ==
    LET r == x % (2 * PiMilli)
    IN  IF r <= PiMilli THEN SinHalfTurn(r) ELSE -SinHalfTurn(r - PiMilli)

CosMilli(x) == SinMilli(x + PiMilli \div 2)

\* math.sin / math.cos of an angle in microradians.
Sin(a) == SinMilli(a \div 1000)

Cos(a) == CosMilli(a \div 1000)

-----------------------------------------------------------------------------
(* Variant 2: configuration and entities (src/unnamed/part_000) *)

WIDTH == 1280
HEIGHT == 800
FPS == 60

\* G = 6.67430e-1, times 10^5.
G_e5 == 66743

max_trail_length == 500

\* math.pi / 2 and math.radians(90), in microradians.
HalfPi == 1570796

\* Rotation rate 2.5 rad/s, in microradians per millisecond.
RotPerMs == 2500

\* Fuel burnt per millisecond of forward (10*dt) and reverse (5*dt) thrust.
FwdBurnPerMs == 2
BackBurnPerMs == 1

\* Camera follow factor 0.05, in percent.
FollowPct == 5

\* Removal threshold of the right click, in world units.
RemoveDist == 80

FuelFull == 100 * FuelUnit

clamp(x, a, b) == Max(a, Min(b, x))

\* vec2(x, y) with x, y in world units.
vec2(x, y) == <<x * Milli, y * Milli>>

VAdd(u, v) == <<u[1] + v[1], u[2] + v[2]>>

VSub(u, v) == <<u[1] - v[1], u[2] - v[2]>>

Planet(pos, mass, radius, color) ==
    [pos |-> pos, mass |-> mass, radius |-> radius, color |-> color]

Ship(pos, vel, angle, angular_vel, thrust) ==
    [pos |-> pos, vel |-> vel, angle |-> angle, angular_vel |-> angular_vel,
     thrust |-> thrust, fuel |-> FuelFull]

create_default_ship == Ship(vec2(0, -300), vec2(40, 0), HalfPi, 0, 120)

DefaultPlanets ==
    << Planet(vec2(0, 0), 20000, 40, <<90, 100, 255>>),
       Planet(vec2(-600, 200), 8000, 28, <<200, 120, 80>>) >>

-----------------------------------------------------------------------------
(* Coordinate conversions *)

\* int(d * z + centre) for an offset d in 1/1000 of a unit and a whole centre:
\* the product d * z is kept exact (whole pixels and whether a fraction is
\* left over) and int() drops the fraction toward zero.
to_pixel(d, z, centre) ==
    LET a     == Abs(d)
        low   == (a % Milli) * z
        t     == (a \div Milli) * z + low \div Milli
        whole == t \div Milli
        exact == t % Milli = 0 /\ low % Milli = 0
        m     == centre - whole
    IN  IF d >= 0 THEN centre + whole
        ELSE IF exact \/ m <= 0 THEN m
        ELSE m - 1

\* world_to_screen without the viewport centre
world_to_screen_uncentred(world_pos, cam, z) ==
    << to_pixel(world_pos[1] - cam[1], z, 0),
       to_pixel(world_pos[2] - cam[2], z, 0) >>

\* int(s[0]), int(s[1]) of s = (world_pos - cam_pos) * zoom + (w/2, h/2)
world_to_screen(world_pos, cam, z) ==
    << to_pixel(world_pos[1] - cam[1], z, WIDTH \div 2),
       to_pixel(world_pos[2] - cam[2], z, HEIGHT \div 2) >>

\* (sp - (w/2, h/2)) / zoom + cam_pos
screen_to_world(screen_pos, cam, z) ==
    << MulDivR((screen_pos[1] - WIDTH \div 2) * Milli, Milli, z) + cam[1],
       MulDivR((screen_pos[2] - HEIGHT \div 2) * Milli, Milli, z) + cam[2] >>

-----------------------------------------------------------------------------
(* Gravity *)

\* One planet's term of compute_gravity, on a grid of k/1000 world units:
\* k = 100 up to 3000 units away, k = 1000 beyond.
planet_acc(p, position, k) ==
    LET rx    == TDiv(p.pos[1] - position[1], k)
        ry    == TDiv(p.pos[2] - position[2], k)
        floor == (p.radius * (Milli \div 2)) \div k
        dist2 == Max(rx * rx + ry * ry, floor * floor)
        dist  == Isqrt(dist2)
        acc_mag == ((G_e5 * p.mass) \div ((k * k) \div 10000)) \div dist2
    IN  << TDiv(rx * acc_mag, dist), TDiv(ry * acc_mag, dist) >>

planet_term(p, position) ==
    LET ax == Abs(p.pos[1] - position[1])
        ay == Abs(p.pos[2] - position[2])
    IN  IF ax <= 3000 * Milli /\ ay <= 3000 * Milli
        THEN planet_acc(p, position, 100)
        ELSE IF ax <= 30000 * Milli /\ ay <= 30000 * Milli
             THEN planet_acc(p, position, 1000)
             ELSE <<0, 0>>

RECURSIVE gravity_sum(_, _, _)
gravity_sum(ps, i, position) ==
    IF i > Len(ps) THEN <<0, 0>>
    ELSE VAdd(planet_term(ps[i], position), gravity_sum(ps, i + 1, position))

compute_gravity(ps, position) == gravity_sum(ps, 1, position)

-----------------------------------------------------------------------------
(* Inputs *)

\* Held keys: a/LEFT, d/RIGHT, w/UP, s/DOWN.
Keys(l, r, f, b) == [left |-> l, right |-> r, fwd |-> f, back |-> b]

NoKeys == Keys(FALSE, FALSE, FALSE, FALSE)

KeySamples ==
    { NoKeys,
      Keys(TRUE, FALSE, TRUE, FALSE),
      Keys(FALSE, FALSE, TRUE, TRUE),
      Keys(FALSE, TRUE, FALSE, TRUE) }

\* clock.tick(FPS) in milliseconds: a repeated tick and a stalled frame.
DtSamples == {0, 6000}

\* clock.tick(FPS) of a frame at FPS frames per second.
FrameMs == 1000 \div FPS

\* pygame.mouse.get_pos(): a point 15 units from the second default planet
\* and a point far from both.
MouseSamples == { <<39, 615>>, <<142, 34>> }

\* random.uniform(2000, 20000)
MassSamples == {2000, 20000}

\* pygame.Color(random.randint(80, 255), ...)
ColorSamples == { <<80, 255, 170>> }

-----------------------------------------------------------------------------
(* SpaceEngine.reset and the event handlers of handle_events *)

Log(name) == /\ op' = name
             /\ prevOp' = op

\* mx, my = pygame.mouse.get_pos(), once per handle_events call
Poll(m) ==
    /\ pc = "poll"
    /\ mouse' = m
    /\ pc' = "events"
    /\ Log("poll")
    /\ UNCHANGED <<running, paused, cam_pos, zoom, planets, ship, trails,
                   applying_thrust, dt, frames, events, burned, impulses>>
    /\ UNCHANGED scVars

\* pygame.QUIT or K_ESCAPE
Quit ==
    /\ pc = "events"
    /\ running' = FALSE
    /\ events' = events + 1
    /\ Log("quit")
    /\ UNCHANGED <<pc, paused, cam_pos, zoom, planets, ship, trails,
                   applying_thrust, mouse, dt, frames, burned, impulses>>
    /\ UNCHANGED scVars

\* K_SPACE
KeySpace ==
    /\ pc = "events"
    /\ paused' = ~paused
    /\ events' = events + 1
    /\ Log("pause")
    /\ UNCHANGED <<pc, running, cam_pos, zoom, planets, ship, trails,
                   applying_thrust, mouse, dt, frames, burned, impulses>>
    /\ UNCHANGED scVars

\* a reset that keeps the zoom
reset_zoom_kept == zoom

\* self.zoom = 1.0
reset_zoom == Milli

\* K_r: self.reset()
KeyR ==
    /\ pc = "events"
    /\ planets' = DefaultPlanets
    /\ ship' = create_default_ship
    /\ cam_pos' = vec2(0, 0)
    /\ zoom' = reset_zoom
    /\ trails' = << >>
    /\ frames' = 0
    /\ events' = 0
    /\ burned' = 0
    /\ Log("reset")
    /\ UNCHANGED <<pc, running, paused, applying_thrust, mouse, dt, impulses>>
    /\ UNCHANGED scVars

\* K_PLUS / K_EQUALS: self.zoom *= 1.1
ZoomIn ==
    /\ pc = "events"
    /\ zoom' = RDiv(zoom * 11, 10)
    /\ events' = events + 1
    /\ Log("zoom_in")
    /\ UNCHANGED <<pc, running, paused, cam_pos, planets, ship, trails,
                   applying_thrust, mouse, dt, frames, burned, impulses>>
    /\ UNCHANGED scVars

\* K_MINUS / K_UNDERSCORE: self.zoom /= 1.1
ZoomOut ==
    /\ pc = "events"
    /\ zoom' = RDiv(zoom * 10, 11)
    /\ events' = events + 1
    /\ Log("zoom_out")
    /\ UNCHANGED <<pc, running, paused, cam_pos, planets, ship, trails,
                   applying_thrust, mouse, dt, frames, burned, impulses>>
    /\ UNCHANGED scVars

\* clamp(int(math.sqrt(mass) * 0.8), 6, 80)
spawn_radius(mass) == clamp(((Isqrt(mass * 10000) * 8) \div 10) \div 100, 6, 80)

\* MOUSEBUTTONDOWN, button 1
LeftClick(mass, color) ==
    /\ pc = "events"
    /\ LET world == screen_to_world(mouse, cam_pos, zoom)
       IN  planets' = Append(planets, Planet(world, mass, spawn_radius(mass), color))
    /\ events' = events + 1
    /\ Log("spawn")
    /\ UNCHANGED <<pc, running, paused, cam_pos, zoom, ship, trails,
                   applying_thrust, mouse, dt, frames, burned, impulses>>
    /\ UNCHANGED scVars

\* np.linalg.norm
norm(v) == Hypot(v[1], v[2])

\* the index of the greatest element instead
argmax(ds) ==
    CHOOSE i \in 1..Len(ds) :
        /\ \A j \in 1..Len(ds) : ds[j] <= ds[i]
        /\ \A j \in 1..(i - 1) : ds[j] < ds[i]

\* np.argmin: the first index of the least element
argmin(ds) ==
    CHOOSE i \in 1..Len(ds) :
        /\ \A j \in 1..Len(ds) : ds[i] <= ds[j]
        /\ \A j \in 1..(i - 1) : ds[j] > ds[i]

\* del self.planets[idx]
del(seq, idx) == SubSeq(seq, 1, idx - 1) \o SubSeq(seq, idx + 1, Len(seq))

despawn(ps, world) ==
    IF ps = << >> THEN ps
    ELSE LET dists == [i \in 1..Len(ps) |-> norm(VSub(ps[i].pos, world))]
             idx   == argmin(dists)
         IN  IF dists[idx] < RemoveDist * Milli THEN del(ps, idx) ELSE ps

\* MOUSEBUTTONDOWN, button 3
RightClick ==
    /\ pc = "events"
    /\ planets' = despawn(planets, screen_to_world(mouse, cam_pos, zoom))
    /\ events' = events + 1
    /\ Log("despawn")
    /\ UNCHANGED <<pc, running, paused, cam_pos, zoom, ship, trails,
                   applying_thrust, mouse, dt, frames, burned, impulses>>
    /\ UNCHANGED scVars

-----------------------------------------------------------------------------
(* SpaceEngine.update *)

\* update without its pause test
update_never_returns_early == FALSE

\* if self.paused: return
update_returns_early == paused

\* forward = vec2(cos(angle - pi/2), sin(angle - pi/2)), in 1/1000
forward(angle) == << Cos(angle - HalfPi), Sin(angle - HalfPi) >>

\* back = vec2(cos(angle + pi/2), sin(angle + pi/2)), in 1/1000
back(angle) == << Cos(angle + HalfPi), Sin(angle + HalfPi) >>

\* vel += direction * power, direction in 1/1000, power in world units/s
impulse(vel, direction, power) ==
    << vel[1] + TDiv(direction[1] * power, Milli),
       vel[2] + TDiv(direction[2] * power, Milli) >>

\* forward thrust burning at the reverse rate
fuel_burn_forward_slow(d) == BackBurnPerMs * d

\* 10 * dt and 5 * dt
fuel_burn_forward(d) == FwdBurnPerMs * d

fuel_burn_reverse(d) == BackBurnPerMs * d

\* fuel consumption without the clamp at 0
burn_unclamped(fuel, amount) == fuel - amount

\* max(0, s.fuel - amount)
burn(fuel, amount) == Max(0, fuel - amount)

\* rotation
rotated(s, k, d) ==
    LET a1 == IF k.left THEN s.angle - RotPerMs * d ELSE s.angle
        a2 == IF k.right THEN a1 + RotPerMs * d ELSE a1
    IN  [s EXCEPT !.angle = a2]

\* thrust + fuel consumption: the ship, the thrusting flag and the impulses
\* applied, each with the fuel at the moment it was applied
thrusted(s, k, d) ==
    IF ~(s.fuel > 0)
    THEN [ship |-> s, thrusting |-> FALSE, log |-> << >>]
    ELSE LET s1 == IF k.fwd
                   THEN [s EXCEPT !.vel = impulse(s.vel, forward(s.angle), s.thrust * d),
                                  !.fuel = burn(s.fuel, fuel_burn_forward(d))]
                   ELSE s
             s2 == IF k.back
                   THEN [s1 EXCEPT !.vel = impulse(s1.vel, back(s1.angle), (s1.thrust * d) \div 2),
                                   !.fuel = burn(s1.fuel, fuel_burn_reverse(d))]
                   ELSE s1
             l1 == IF k.fwd THEN << [key |-> "forward", fuel |-> s.fuel] >> ELSE << >>
             l2 == IF k.back THEN << [key |-> "reverse", fuel |-> s1.fuel] >> ELSE << >>
         IN  [ship |-> s2, thrusting |-> (k.fwd \/ k.back), log |-> l1 \o l2]

\* gravity: vel += acc * dt; pos += vel * dt
integrated(s, ps, d) ==
    LET acc == compute_gravity(ps, s.pos)
        vel == << s.vel[1] + MulDivT(acc[1], d, 1000), s.vel[2] + MulDivT(acc[2], d, 1000) >>
        pos == << s.pos[1] + MulDivT(vel[1], d, 1000), s.pos[2] + MulDivT(vel[2], d, 1000) >>
    IN  [s EXCEPT !.vel = vel, !.pos = pos]

\* the capacity test off by one
trail_too_long_late(t) == Len(t) > max_trail_length + 1

\* len(self.trails) > self.max_trail_length
trail_too_long(t) == Len(t) > max_trail_length

\* trail update
trail_update(t, pos) ==
    LET t1 == Append(t, pos)
    IN  IF trail_too_long(t1) THEN Tail(t1) ELSE t1

\* camera follow: cam_pos += (s.pos - cam_pos) * 0.05
camera_follow(cam, pos) ==
    << cam[1] + TDiv((pos[1] - cam[1]) * FollowPct, 100),
       cam[2] + TDiv((pos[2] - cam[2]) * FollowPct, 100) >>

\* dt = clock.tick(FPS) / 1000.0 ... self.update(dt), with the keys
\* pygame.key.get_pressed() returns; then the loop test of run
Update(d, k) ==
    /\ pc = "events"
    /\ dt' = d
    /\ Log("update")
    /\ pc' = IF running THEN "poll" ELSE "done"
    /\ IF update_returns_early
       THEN /\ impulses' = << >>
            /\ UNCHANGED <<ship, trails, cam_pos, applying_thrust, frames, burned>>
       ELSE LET t  == thrusted(rotated(ship, k, d), k, d)
                s2 == integrated(t.ship, planets, d)
            IN  /\ ship' = s2
                /\ applying_thrust' = t.thrusting
                /\ impulses' = t.log
                /\ trails' = trail_update(trails, s2.pos)
                /\ cam_pos' = camera_follow(cam_pos, s2.pos)
                /\ frames' = frames + 1
                /\ burned' = IF k.fwd THEN burned + FwdBurnPerMs * d ELSE burned
    /\ UNCHANGED <<running, paused, zoom, planets, mouse, events>>
    /\ UNCHANGED scVars

-----------------------------------------------------------------------------
(* Variant 2: the specification *)

sc0 == [x |-> 0, y |-> 0, vx |-> 0, vy |-> 0, angle |-> 0]

\* SpaceEngine.__init__
EngineInit ==
    /\ pc = "poll"
    /\ running = TRUE
    /\ paused = FALSE
    /\ cam_pos = vec2(0, 0)
    /\ zoom = Milli
    /\ planets = DefaultPlanets
    /\ ship = create_default_ship
    /\ trails = << >>
    /\ applying_thrust = FALSE
    /\ mouse = <<0, 0>>
    /\ dt = 0
    /\ op = "init"
    /\ prevOp = "init"
    /\ frames = 0
    /\ events = 0
    /\ burned = 0
    /\ impulses = << >>

Init ==
    /\ EngineInit
    /\ sc = sc0
    /\ sc_prewrap = <<0, 0>>
    /\ sc_frames = 0

Next ==
    \/ \E m \in MouseSamples : Poll(m)
    \/ events < MaxEvents /\ Quit
    \/ events < MaxEvents /\ KeySpace
    \/ KeyR
    \/ events < MaxEvents /\ ZoomIn
    \/ events < MaxEvents /\ ZoomOut
    \/ events < MaxEvents /\ \E mass \in MassSamples, color \in ColorSamples : LeftClick(mass, color)
    \/ events < MaxEvents /\ RightClick
    \/ (paused \/ frames < MaxFrames) /\ \E d \in DtSamples, k \in KeySamples : Update(d, k)

Spec == Init /\ [][Next]_vars

\* Planet editing under a moving camera: zoom, spawn and despawn events
\* between coasting frames.
NextEdit ==
    \/ \E m \in MouseSamples : Poll(m)
    \/ events < MaxEdits /\ ZoomIn
    \/ events < MaxEdits /\ ZoomOut
    \/ events < MaxEdits /\ \E mass \in MassSamples, color \in ColorSamples : LeftClick(mass, color)
    \/ events < MaxEdits /\ RightClick
    \/ frames < MaxEditFrames /\ \E d \in {FrameMs, 6000} : Update(d, NoKeys)

SpecEdit == Init /\ [][NextEdit]_vars

\* A long coasting flight at 60 frames per second, with pause and reset.
NextLong ==
    \/ Poll(<<39, 615>>)
    \/ events < MaxEvents /\ KeySpace
    \/ KeyR
    \/ (paused \/ frames < MaxFramesLong) /\ Update(FrameMs, NoKeys)

SpecLong == Init /\ [][NextLong]_vars

-----------------------------------------------------------------------------
(* Variant 1: class Spacecraft and its game loop (src/PYTHON---Space-engine.py).
   Positions and velocities in 1/1000 pixel (per frame), the angle in degrees. *)

SC_WIDTH == 800
SC_HEIGHT == 600

\* self.acceleration = 0.1, self.friction = 0.99, in 1/1000
acceleration == 100
friction == 990

rotation_speed == 3

\* math.radians(angle), in milliradians
radians(angle) == TDiv(angle * 17453, 1000)

\* C's fmod: the result has the sign of the dividend
c_fmod(a, b) == a - b * TDiv(a, b)

\* Python's float %: the result has the sign of the divisor
py_mod(a, b) == a - b * (a \div b)

\* Spacecraft.rotate
rotate(s, direction) == [s EXCEPT !.angle = s.angle + rotation_speed * direction]

\* Spacecraft.thrust
thrust(s) ==
    LET rad == radians(s.angle)
    IN  [s EXCEPT !.vx = s.vx + TDiv(SinMilli(rad) * acceleration, Milli),
                  !.vy = s.vy - TDiv(CosMilli(rad) * acceleration, Milli)]

\* Spacecraft.update, before the wrap: friction, then the move
sc_moved(s) ==
    LET vx == TDiv(s.vx * friction, Milli)
        vy == TDiv(s.vy * friction, Milli)
    IN  [s EXCEPT !.vx = vx, !.vy = vy, !.x = s.x + vx, !.y = s.y + vy]

\* Spacecraft.update
sc_update(s) ==
    LET m == sc_moved(s)
    IN  [m EXCEPT !.x = py_mod(m.x, SC_WIDTH * Milli),
                  !.y = py_mod(m.y, SC_HEIGHT * Milli)]

\* One iteration of the game loop with the held keys K_LEFT, K_RIGHT, K_UP.
GameLoop(l, r, u) ==
    LET s1 == IF l THEN rotate(sc, -1) ELSE sc
        s2 == IF r THEN rotate(s1, 1) ELSE s1
        s3 == IF u THEN thrust(s2) ELSE s2
    IN  /\ sc' = sc_update(s3)
        /\ sc_prewrap' = << sc_moved(s3).x, sc_moved(s3).y >>
        /\ sc_frames' = sc_frames + 1
        /\ UNCHANGED engineVars

\* Spacecraft.__init__
sc_new == [x |-> (SC_WIDTH \div 2) * Milli, y |-> (SC_HEIGHT \div 2) * Milli,
           vx |-> 0, vy |-> 0, angle |-> 0]

\* States of a flight: the new Spacecraft, and a ship in flight at a position
\* of the screen, with a speed below the terminal speed
\* acceleration * friction / (1 - friction) = 9.9 pixels per frame and a
\* heading that is a multiple of rotation_speed.
FlightSamples ==
    { sc_new } \cup
    { [x |-> x, y |-> y, vx |-> vx, vy |-> vy, angle |-> a] :
        x \in {0, 2500, SC_WIDTH * Milli - 1},
        y \in {0, 2500, SC_HEIGHT * Milli - 1},
        vx \in {-9800, 0, 9800},
        vy \in {-9800, 0, 9800},
        a \in {-93, 0, 132} }

InitV1 ==
    /\ EngineInit
    /\ sc \in FlightSamples
    /\ sc_prewrap = << sc.x, sc.y >>
    /\ sc_frames = 0

NextV1 ==
    sc_frames < MaxFramesV1 /\ \E l \in BOOLEAN, r \in BOOLEAN, u \in BOOLEAN : GameLoop(l, r, u)

SpecV1 == InitV1 /\ [][NextV1]_vars

-----------------------------------------------------------------------------
(* Properties *)

\* C1: while paused, an update call (any dt, any held keys) leaves the ship
\* (position, velocity, angle, fuel), the trail buffer and the camera position
\* unchanged; paused goes back to false only by the pause toggle.
C1_PausedUpdateFreezes ==
    [][ /\ (op' = "update" /\ paused)
            => (ship' = ship /\ trails' = trails /\ cam_pos' = cam_pos)
        /\ (paused /\ ~paused') => op' = "pause" ]_vars

\* an update call with dt = 6 s on a paused engine whose ship has flown
C1_Witness ==
    paused /\ op = "update" /\ dt > 0 /\ frames > 0

\* C2: in every reachable state 0 <= fuel <= 100.
C2_FuelInRange == 0 <= ship.fuel /\ ship.fuel <= 100 * FuelUnit

\* a thrusting update has just emptied the tank
C2_Witness == ship.fuel = 0 /\ applying_thrust /\ op = "update"

\* C3 as claimed: fuel never increases from one state to the next, and after
\* thrust-forward frames whose total consumption exceeds 100 it is exactly 0.
C3_FuelNeverIncreases ==
    /\ [][ship'.fuel <= ship.fuel]_vars
    /\ [](burned > 100 * FuelUnit => ship.fuel = 0)

\* C3 amended: fuel never increases except by a reset, which refuels to 100;
\* after thrust-forward frames since the last reset whose total consumption
\* exceeds 100, fuel is exactly 0.
C3_FuelNeverIncreasesButByReset ==
    /\ [][op' # "reset" => ship'.fuel <= ship.fuel]_vars
    /\ [][op' = "reset" => ship'.fuel = 100 * FuelUnit]_vars
    /\ [](burned > 100 * FuelUnit => ship.fuel = 0)

\* thrust-forward frames have consumed more than 100 and the tank is empty
C3_Witness == burned > 100 * FuelUnit /\ ship.fuel = 0

\* C4: the trail never holds more than max_trail_length positions; an
\* unpaused update appends the new ship position and evicts the oldest entry
\* when the buffer is full; a reset empties it.
C4_TrailBounded ==
    /\ [](Len(trails) <= 500)
    /\ [][op' = "reset" => trails' = << >>]_vars
    /\ [][(op' = "update" /\ ~paused)
            => trails' = IF Len(trails) < 500
                         THEN Append(trails, ship'.pos)
                         ELSE Append(Tail(trails), ship'.pos)]_vars

\* the buffer is full and has evicted entries
C4_Witness == Len(trails) = 500 /\ frames > 500 /\ op = "update"

\* C5: reset leaves paused as it is and restores ship, planets, camera, zoom
\* and trail to their startup values.
C5_ResetRestoresDefaults ==
    [][op' = "reset" =>
        /\ paused' = paused
        /\ ship'.pos = <<0, -300 * Milli>>
        /\ ship'.vel = <<40 * Milli, 0>>
        /\ ship'.fuel = 100 * FuelUnit
        /\ Len(planets') = 2
        /\ planets'[1].pos = <<0, 0>> /\ planets'[1].mass = 20000 /\ planets'[1].radius = 40
        /\ planets'[2].pos = <<-600 * Milli, 200 * Milli>> /\ planets'[2].mass = 8000
        /\ planets'[2].radius = 28
        /\ cam_pos' = <<0, 0>>
        /\ zoom' = Milli
        /\ trails' = << >> ]_vars

\* a reset issued while paused
C5_Witness == op = "reset" /\ paused

\* C6: a left click adds one planet, and a right click that follows it at once
\* (same click point, same camera) removes exactly one, so the count is back
\* where it was.
C6_SpawnDespawnCancel ==
    [][ /\ op' = "spawn" => Len(planets') = Len(planets) + 1
        /\ (op = "spawn" /\ op' = "despawn") => Len(planets') = Len(planets) - 1 ]_vars

\* spawn then despawn under a zoomed camera that has left the origin
C6_Witness ==
    op = "despawn" /\ prevOp = "spawn" /\ zoom # Milli /\ cam_pos # <<0, 0>>

\* Pixels and world points the round trips are tried on.  The grid is coarser
\* than a double, so on it a rounded quotient falls short of a whole pixel for
\* more pixels than in the program; for these pixels the grid and the doubles
\* agree after the first zoom step from the initial camera: at zoom 1.1 only
\* <<39, 615>> fails to come back (as <<38, 615>>), at zoom 1/1.1 only
\* <<142, 34>> (as <<141, 34>>).
PixelSamples == MouseSamples \cup { <<0, 0>>, <<1265, 762>> }

WorldSamples == { ship.pos } \cup { planets[i].pos : i \in 1..Len(planets) }

RoundTripScreen(p) == world_to_screen(screen_to_world(p, cam_pos, zoom), cam_pos, zoom)

RoundTripWorld(w) == screen_to_world(world_to_screen(w, cam_pos, zoom), cam_pos, zoom)

C8_ZeroDtUpdateFreezes ==
    [][(op' = "update" /\ dt' <= 0)
         => (ship' = ship /\ trails' = trails /\ cam_pos' = cam_pos)]_vars

\* C9 as claimed: every thrust impulse of an update was applied with fuel > 0
\* at that moment.
C9_ImpulseOnlyWithFuel ==
    \A i \in 1..Len(impulses) : impulses[i].fuel > 0

=============================================================================
